---- MODULE Spec2Model ----
(***************************************************************************)
(* hackers-api: the cache-backed story fetcher of main.go.                 *)
(*                                                                         *)
(* State: the process-wide StoriesCache (two maps and a sync.RWMutex), a   *)
(* wall clock, and for every request worker its position in                *)
(* getStories -> fetchStories -> cache.get / upstream requests / cache.set *)
(* together with the Go locals it holds there.                             *)
(*                                                                         *)
(* Strings the code inspects (titles, for strings.HasPrefix) are sequences *)
(* of characters; strings it only passes along are TLA+ strings.  An error *)
(* value is the sequence of the pieces of its message, <<>> being nil.     *)
(* Time is counted in minutes.                                             *)
(***************************************************************************)
EXTENDS Integers, Sequences, FiniteSets, TLC

\* ------------------------------------------------------------------ bounds
\* The clock runs from 0 to MaxTime minutes.
MaxTime == 6
\* Length of the longest upstream listing (one more than the code keeps).
LongLen == 31
\* Item requests for ids 1..MaxFlaky may fail (transport or decode error);
\* the others always succeed.
MaxFlaky == 2
\* Request workers; Spec runs worker 1 alone (one request at a time).
NumProcs == 2
\* Requests served in one behaviour.
MaxRequests == 2

\* ------------------------------------------------------ program constants
cacheExpiration == 5
maxStories == 30
StatusOK == 200
StatusInternalServerError == 500

Procs == 1..NumProcs
SeqProcs == {1}

\* The story types fetchStories' switch accepts.
StoryTypes == {"top", "show", "ask"}
\* The values of the route parameter tried: absent, the three types, and
\* two values outside the enumeration.
Params == {"", "top", "show", "ask", "invalid", "Top"}

\* ------------------------------------------------------------ pure helpers
ShowPrefix == <<"S", "h", "o", "w", " ", "H", "N", ":">>
AskPrefix == <<"A", "s", "k", " ", "H", "N", ":">>

\* strings.HasPrefix
HasPrefix(s, prefix) ==
    /\ Len(s) >= Len(prefix)
    /\ SubSeq(s, 1, Len(prefix)) = prefix

\* Mutant: the write starts from a new map.
MapSetOnly(m, k, v) == [x \in {k} |-> v]

\* A map write m[k] = v on a Go map.
MapSet(m, k, v) == [x \in (DOMAIN m) \cup {k} |-> IF x = k THEN v ELSE m[x]]

\* ---------------------------------------------------------------- upstream
\* Titles the upstream item endpoint serves.  Item 1 is a Show HN post,
\* item 2 an Ask HN post, item 3 an ordinary story whose title merely
\* contains "Show HN:", and the ids from 5 on cycle through the three.
TitleShow == ShowPrefix \o <<" ", "x">>
TitleAsk == AskPrefix \o <<" ", "y">>
TitlePlain == <<"R", "e", ":", " ">> \o ShowPrefix

TitleOf(id) ==
    CASE id % 3 = 1 -> TitleShow
      [] id % 3 = 2 -> TitleAsk
      [] OTHER -> TitlePlain

\* The HNItem a body "null" decodes to: json.Decode reports no error and
\* leaves every field at its zero value.  The upstream answers so for id 4.
ZeroItem ==
    [ID |-> 0, Type |-> "", By |-> "", Time |-> 0, Title |-> <<>>,
     URL |-> "", Score |-> 0, Descendants |-> 0]

Item(id) ==
    IF id = 4 THEN ZeroItem
    ELSE [ID |-> id, Type |-> "story", By |-> "pg", Time |-> id,
          Title |-> TitleOf(id), URL |-> "u", Score |-> id,
          Descendants |-> 0]

\* The id listings the upstream listing endpoint serves: an empty one, one
\* whose item requests can all fail, one that is not in id order and holds
\* the null item, and one longer than maxStories.
Listings ==
    {<<>>, <<2, 1>>, <<3, 1, 4, 2>>, [i \in 1..LongLen |-> i]}

ListingErrors == {<<"listing: transport error">>, <<"listing: decode error">>}

\* ------------------------------------------------------------------- state
VARIABLES
    stories,       \* cache.stories: map[string][]Story
    lastUpdate,    \* cache.lastUpdate: map[string]time.Time
    rlocked,       \* workers holding cache.mutex for reading
    wlocked,       \* the worker holding cache.mutex for writing, or 0
    now,           \* the wall clock
    pc,            \* each worker's position
    storyType,     \* getStories / fetchStories: storyType
    found,         \* cache.get's second result (ok)
    cached,        \* cache.get's first result
    storyIDs,      \* fetchStories: storyIDs after truncation
    built,         \* fetchStories: the local slice stories
    result,        \* fetchStories' first return value
    err,           \* fetchStories' second return value
    writes,        \* the c.JSON calls the handler made for this request
    listed,        \* history: the listing as decoded, before truncation
    reqLog,        \* history: upstream requests this call made, in order
    srcIDs,        \* history: requested id behind each element of built
    failed,        \* history: positions whose item request failed
    lookupAt,      \* history: clock value time.Since used, -1 if none yet
    stampAt,       \* history: clock value this call's set stamped, or -1
    before,        \* history: the cache maps when the handler started
    lastMiss,      \* history: per type, last returned cache-miss success
    served,        \* history: requests begun so far
    routeParam,    \* history: the route parameter of the worker's request
    storiesBy,     \* history: per key, the worker whose set wrote the list
    lastUpdateBy,  \* history: per key, the worker whose set wrote the stamp
    readBy,        \* history: the writers of the stamp and list a get read
    budget,        \* the number of requests this behaviour serves
    touched,       \* history: workers whose type's entry was written
                   \* while their current call was running
    late           \* history: workers that got their listing while
                   \* another running call for the type held its own

cacheVars == <<stories, lastUpdate>>
lockVars == <<rlocked, wlocked>>
localVars == <<storyType, found, cached, storyIDs, built, result, err,
               writes>>
histVars == <<listed, reqLog, srcIDs, failed, lookupAt, stampAt, before,
              lastMiss, served>>
tagVars == <<routeParam, storiesBy, lastUpdateBy, readBy, budget, touched,
             late>>
vars == <<stories, lastUpdate, rlocked, wlocked, now, pc, storyType, found,
          cached, storyIDs, built, result, err, writes, listed, reqLog,
          srcIDs, failed, lookupAt, stampAt, before, lastMiss, served,
          routeParam, storiesBy, lastUpdateBy, readBy, budget, touched,
                   late>>

NoMiss == [set |-> FALSE, result |-> <<>>, at |-> 0]
EmptyMap == [x \in {} |-> 0]

Start ==
    /\ stories = EmptyMap
    /\ lastUpdate = EmptyMap
    /\ rlocked = {}
    /\ wlocked = 0
    /\ now = 0
    /\ pc = [p \in Procs |-> "idle"]
    /\ storyType = [p \in Procs |-> ""]
    /\ found = [p \in Procs |-> FALSE]
    /\ cached = [p \in Procs |-> <<>>]
    /\ storyIDs = [p \in Procs |-> <<>>]
    /\ built = [p \in Procs |-> <<>>]
    /\ result = [p \in Procs |-> <<>>]
    /\ err = [p \in Procs |-> <<>>]
    /\ writes = [p \in Procs |-> <<>>]
    /\ listed = [p \in Procs |-> <<>>]
    /\ reqLog = [p \in Procs |-> <<>>]
    /\ srcIDs = [p \in Procs |-> <<>>]
    /\ failed = [p \in Procs |-> {}]
    /\ lookupAt = [p \in Procs |-> -1]
    /\ stampAt = [p \in Procs |-> -1]
    /\ before = [p \in Procs |-> <<EmptyMap, EmptyMap>>]
    /\ lastMiss = [t \in StoryTypes |-> NoMiss]
    /\ served = 0
    /\ routeParam = [p \in Procs |-> ""]
    /\ storiesBy = EmptyMap
    /\ lastUpdateBy = EmptyMap
    /\ readBy = [p \in Procs |-> <<0, 0>>]
    /\ touched = {}
    /\ late = {}

\* The process starts with an empty cache and no request in progress.
Init == Start /\ budget = MaxRequests

\* ------------------------------------------------------------- the clock
\* Time passes in jumps of a whole cacheExpiration or of one minute more,
\* which makes an entry exactly cacheExpiration old (the boundary of the
\* expiry test) or just older.
TickSizes == {cacheExpiration, cacheExpiration + 1}

\* Mutant: a sweep drops the entries that the new time makes expired.
TickSweeps ==
    /\ \E d \in TickSizes :
          /\ now + d <= MaxTime
          /\ now' = now + d
    /\ LET live == {k \in DOMAIN lastUpdate :
                       now' - lastUpdate[k] <= cacheExpiration}
       IN /\ stories' = [k \in live |-> stories[k]]
          /\ lastUpdate' = [k \in live |-> lastUpdate[k]]
    /\ UNCHANGED <<lockVars, pc, localVars, histVars, tagVars>>

Tick ==
    /\ \E d \in TickSizes :
          /\ now + d <= MaxTime
          /\ now' = now + d
    /\ UNCHANGED <<cacheVars, lockVars, pc, localVars, histVars>>
    /\ UNCHANGED tagVars

\* Mutant: an absent parameter is passed on as it is.
DefaultTypeNone(param) == param

\* ------------------------------------------------- getStories, beginning
\* The handler reads the route parameter, defaults it to "top" and calls
\* fetchStories, which calls cache.get.
DefaultType(param) == IF param = "" THEN "top" ELSE param

HandlerEnter(p, param) ==
    /\ pc[p] = "idle"
    /\ served < budget
    /\ served' = served + 1
    /\ storyType' = [storyType EXCEPT ![p] = DefaultType(param)]
    /\ before' = [before EXCEPT ![p] = <<stories, lastUpdate>>]
    /\ pc' = [pc EXCEPT ![p] = "get_rlock"]
    /\ UNCHANGED <<cacheVars, lockVars, now, found, cached, storyIDs,
                   built, result, err, writes, listed, reqLog, srcIDs,
                   failed, lookupAt, stampAt, lastMiss>>
    /\ routeParam' = [routeParam EXCEPT ![p] = param]
    /\ UNCHANGED <<storiesBy, lastUpdateBy, readBy, budget, touched,
                   late>>

\* Mutant: the read lock is taken without waiting for a writer.
GetRLockIgnoresWriter(p) ==
    /\ pc[p] = "get_rlock"
    /\ rlocked' = rlocked \cup {p}
    /\ pc' = [pc EXCEPT ![p] = "get_ts"]
    /\ UNCHANGED <<cacheVars, wlocked, now, localVars, histVars, tagVars>>

\* --------------------------------------------------------------- cache.get
\* sc.mutex.RLock(): waits while a writer holds the mutex.
GetRLock(p) ==
    /\ pc[p] = "get_rlock"
    /\ wlocked = 0
    /\ rlocked' = rlocked \cup {p}
    /\ pc' = [pc EXCEPT ![p] = "get_ts"]
    /\ UNCHANGED <<cacheVars, wlocked, now, localVars, histVars>>
    /\ UNCHANGED tagVars

\* Mutant: an entry exactly cacheExpiration old already counts as expired.
ExpiredAtTTL(ts, t) == t - ts >= cacheExpiration

\* time.Since(lastUpdate) > cacheExpiration, with the clock reading t.
Expired(ts, t) == t - ts > cacheExpiration

\* The lookup in sc.lastUpdate and the expiry test.  Either early return
\* yields (nil, false) and runs the deferred RUnlock.
GetCheckFresh(p) ==
    /\ pc[p] = "get_ts"
    /\ p \in rlocked
    /\ LET t == storyType[p] IN
       IF t \notin DOMAIN lastUpdate
       THEN /\ found' = [found EXCEPT ![p] = FALSE]
            /\ cached' = [cached EXCEPT ![p] = <<>>]
            /\ rlocked' = rlocked \ {p}
            /\ pc' = [pc EXCEPT ![p] = "got"]
            /\ UNCHANGED lookupAt
       ELSE /\ lookupAt' = [lookupAt EXCEPT ![p] = now]
            /\ IF Expired(lastUpdate[t], now)
               THEN /\ found' = [found EXCEPT ![p] = FALSE]
                    /\ cached' = [cached EXCEPT ![p] = <<>>]
                    /\ rlocked' = rlocked \ {p}
                    /\ pc' = [pc EXCEPT ![p] = "got"]
               ELSE /\ pc' = [pc EXCEPT ![p] = "get_st"]
                    /\ UNCHANGED <<found, cached, rlocked>>
    /\ UNCHANGED <<cacheVars, wlocked, now, storyType, storyIDs, built,
                   result, err, writes, listed, reqLog, srcIDs, failed,
                   stampAt, before, lastMiss, served>>
    /\ readBy' = IF /\ storyType[p] \in DOMAIN lastUpdate
                     /\ ~Expired(lastUpdate[storyType[p]], now)
                  THEN [readBy EXCEPT
                          ![p] = <<lastUpdateBy[storyType[p]], 0>>]
                  ELSE readBy
    /\ UNCHANGED <<routeParam, storiesBy, lastUpdateBy, budget, touched,
                   late>>

\* Mutant: a hit renews the entry's timestamp (sliding expiration).
GetReadStoriesSliding(p) ==
    /\ pc[p] = "get_st"
    /\ p \in rlocked
    /\ LET t == storyType[p] IN
       /\ found' = [found EXCEPT ![p] = t \in DOMAIN stories]
       /\ cached' = [cached EXCEPT
                       ![p] = IF t \in DOMAIN stories THEN stories[t]
                              ELSE <<>>]
       /\ lastUpdate' = MapSet(lastUpdate, t, now)
    /\ rlocked' = rlocked \ {p}
    /\ pc' = [pc EXCEPT ![p] = "got"]
    /\ readBy' = [readBy EXCEPT
                     ![p][2] = IF storyType[p] \in DOMAIN stories
                               THEN storiesBy[storyType[p]] ELSE 0]
    /\ UNCHANGED <<stories, wlocked, now, storyType, storyIDs, built,
                   result, err, writes, histVars, routeParam, storiesBy,
                   lastUpdateBy, budget, touched,
                   late>>

\* stories, ok := sc.stories[storyType]; return; deferred RUnlock.
GetReadStories(p) ==
    /\ pc[p] = "get_st"
    /\ p \in rlocked
    /\ LET t == storyType[p] IN
       /\ found' = [found EXCEPT ![p] = t \in DOMAIN stories]
       /\ cached' = [cached EXCEPT
                       ![p] = IF t \in DOMAIN stories THEN stories[t]
                              ELSE <<>>]
    /\ rlocked' = rlocked \ {p}
    /\ pc' = [pc EXCEPT ![p] = "got"]
    /\ UNCHANGED <<cacheVars, wlocked, now, storyType, storyIDs, built,
                   result, err, writes, histVars>>
    /\ readBy' = [readBy EXCEPT
                     ![p][2] = IF storyType[p] \in DOMAIN stories
                               THEN storiesBy[storyType[p]] ELSE 0]
    /\ UNCHANGED <<routeParam, storiesBy, lastUpdateBy, budget, touched,
                   late>>

\* ------------------------------------------------------------ fetchStories
\* Mutant: the default branch falls back to the top listing.
EndpointDefaultTop(t) ==
    CASE t = "show" -> "showstories"
      [] t = "ask" -> "askstories"
      [] OTHER -> "topstories"

\* The switch on storyType; "" stands for the default branch.
Endpoint(t) ==
    CASE t = "top" -> "topstories"
      [] t = "show" -> "showstories"
      [] t = "ask" -> "askstories"
      [] OTHER -> ""

\* fmt.Errorf("invalid story type: %s", storyType)
InvalidTypeError(t) == <<"invalid story type: ", t>>

\* Mutant: the cache is consulted but its answer is not used.
FetchAfterGetIgnoresHit(p) ==
    /\ pc[p] = "got"
    /\ IF Endpoint(storyType[p]) = ""
       THEN /\ err' = [err EXCEPT ![p] = InvalidTypeError(storyType[p])]
            /\ pc' = [pc EXCEPT ![p] = "respond"]
       ELSE /\ pc' = [pc EXCEPT ![p] = "listing"]
            /\ UNCHANGED err
    /\ UNCHANGED <<cacheVars, lockVars, now, storyType, found, cached,
                   storyIDs, built, result, writes, histVars>>
    /\ UNCHANGED tagVars

\* After cache.get returned: a hit returns the cached list; a miss goes on
\* to the switch, whose default branch returns the error.
FetchAfterGet(p) ==
    /\ pc[p] = "got"
    /\ IF found[p]
       THEN /\ result' = [result EXCEPT ![p] = cached[p]]
            /\ pc' = [pc EXCEPT ![p] = "respond"]
            /\ UNCHANGED err
       ELSE IF Endpoint(storyType[p]) = ""
       THEN /\ err' = [err EXCEPT ![p] = InvalidTypeError(storyType[p])]
            /\ pc' = [pc EXCEPT ![p] = "respond"]
            /\ UNCHANGED result
       ELSE /\ pc' = [pc EXCEPT ![p] = "listing"]
            /\ UNCHANGED <<result, err>>
    /\ UNCHANGED <<cacheVars, lockVars, now, storyType, found, cached,
                   storyIDs, built, writes, histVars>>
    /\ UNCHANGED tagVars

ListingRequest(t) == [kind |-> "listing", endpoint |-> Endpoint(t), id |-> 0]
ItemRequest(id) == [kind |-> "item", endpoint |-> "item", id |-> id]

\* Mutant: the listing is used whole.
TruncateNone(ids) == ids

\* storyIDs = storyIDs[:maxStories] when longer
Truncate(ids) ==
    IF Len(ids) > maxStories THEN SubSeq(ids, 1, maxStories) ELSE ids

\* The other running calls for p's story type that have got their listing.
HoldListing(p) ==
    {q \in Procs \ {p} :
        /\ storyType[q] = storyType[p]
        /\ \/ pc[q] \in {"items", "set_lock", "set_st", "set_ts"}
           \/ pc[q] \in {"respond", "done"} /\ stampAt[q] >= 0}

\* Mutant: a failed listing request is cached as an empty list.
FetchListingNegativeCache(p) ==
    /\ pc[p] = "listing"
    /\ reqLog' = [reqLog EXCEPT
                    ![p] = Append(@, ListingRequest(storyType[p]))]
    /\ \/ \E e \in ListingErrors :
             /\ err' = [err EXCEPT ![p] = e]
             /\ stories' = MapSet(stories, storyType[p], <<>>)
             /\ lastUpdate' = MapSet(lastUpdate, storyType[p], now)
             /\ pc' = [pc EXCEPT ![p] = "respond"]
             /\ UNCHANGED <<storyIDs, listed>>
       \/ \E ids \in Listings :
             /\ listed' = [listed EXCEPT ![p] = ids]
             /\ storyIDs' = [storyIDs EXCEPT ![p] = Truncate(ids)]
             /\ pc' = [pc EXCEPT ![p] = "items"]
             /\ UNCHANGED <<err, cacheVars>>
    /\ UNCHANGED <<lockVars, now, storyType, found, cached, built, result,
                   writes, srcIDs, failed, lookupAt, stampAt, before,
                   lastMiss, served>>
    /\ storiesBy' = IF err'[p] # <<>>
                     THEN MapSet(storiesBy, storyType[p], p)
                     ELSE storiesBy
    /\ lastUpdateBy' = IF err'[p] # <<>>
                        THEN MapSet(lastUpdateBy, storyType[p], p)
                        ELSE lastUpdateBy
    /\ UNCHANGED <<routeParam, readBy, budget, touched,
                   late>>

\* The listing request and the decode of its body.  An error returns at
\* once; a decoded listing is truncated and the loop over it is next.
FetchListing(p) ==
    /\ pc[p] = "listing"
    /\ reqLog' = [reqLog EXCEPT
                    ![p] = Append(@, ListingRequest(storyType[p]))]
    /\ \/ \E e \in ListingErrors :
             /\ err' = [err EXCEPT ![p] = e]
             /\ pc' = [pc EXCEPT ![p] = "respond"]
             /\ UNCHANGED <<storyIDs, listed, late>>
       \/ \E ids \in Listings :
             /\ listed' = [listed EXCEPT ![p] = ids]
             /\ storyIDs' = [storyIDs EXCEPT ![p] = Truncate(ids)]
             /\ pc' = [pc EXCEPT ![p] = "items"]
             /\ late' = IF HoldListing(p) # {} THEN late \cup {p} ELSE late
             /\ UNCHANGED err
    /\ UNCHANGED <<cacheVars, lockVars, now, storyType, found, cached,
                   built, result, writes, srcIDs, failed, lookupAt, stampAt,
                   before, lastMiss, served>>
    /\ UNCHANGED <<routeParam, storiesBy, lastUpdateBy, readBy, budget,
                   touched>>

\* Mutant: no item is filtered out.
KeepEverything(t, item) == TRUE

\* The two filters of the loop body: TRUE when the item is kept.
Keep(t, item) ==
    /\ ~(t = "show" /\ ~HasPrefix(item.Title, ShowPrefix))
    /\ ~(t = "ask" /\ ~HasPrefix(item.Title, AskPrefix))

\* fmt.Sprintf("https://news.ycombinator.com/item?id=%d", item.ID)
CommentsURL(id) == <<"https://news.ycombinator.com/item?id=", id>>

\* Mutant: the Story carries the upstream item's own type.
MakeStoryItemType(item, t) ==
    [ID |-> item.ID, Title |-> item.Title, URL |-> item.URL,
     Points |-> item.Score, SubmittedBy |-> item.By,
     CreatedAt |-> item.Time, CommentsURL |-> CommentsURL(item.ID),
     Type |-> item.Type]

\* The Story literal built from an item for the requested type.
MakeStory(item, t) ==
    [ID |-> item.ID, Title |-> item.Title, URL |-> item.URL,
     Points |-> item.Score, SubmittedBy |-> item.By,
     CreatedAt |-> item.Time, CommentsURL |-> CommentsURL(item.ID),
     Type |-> t]

\* The state of the range loop: the slice built so far, and as history the
\* requested id behind each of its elements, the positions whose item
\* request failed and the item requests made.
LoopStart == [built |-> <<>>, src |-> <<>>, failed |-> {}, reqs |-> <<>>]

\* Mutant: a failed item request is repeated once before the id is skipped.
LoopBodyRetry(t, ids, fails, i, acc) ==
    LET id == ids[i]
        reqs == Append(acc.reqs, ItemRequest(id))
    IN IF i \in fails
       THEN [acc EXCEPT !.reqs = Append(reqs, ItemRequest(id)),
                        !.failed = @ \cup {i}]
       ELSE IF ~Keep(t, Item(id))
       THEN [acc EXCEPT !.reqs = reqs]
       ELSE [acc EXCEPT !.reqs = reqs,
                        !.built = Append(@, MakeStory(Item(id), t)),
                        !.src = Append(@, id)]

\* Mutant: the newest Story is put in front of the slice.
LoopBodyPrepend(t, ids, fails, i, acc) ==
    LET id == ids[i]
        reqs == Append(acc.reqs, ItemRequest(id))
    IN IF i \in fails
       THEN [acc EXCEPT !.reqs = reqs, !.failed = @ \cup {i}]
       ELSE IF ~Keep(t, Item(id))
       THEN [acc EXCEPT !.reqs = reqs]
       ELSE [acc EXCEPT !.reqs = reqs,
                        !.built = <<MakeStory(Item(id), t)>> \o @,
                        !.src = <<id>> \o @]

\* One iteration of the range loop at position i of ids: fetchItem(id),
\* then skip on error, skip on filter, or append the Story.  fails holds
\* the positions whose item request comes back with an error.
LoopBody(t, ids, fails, i, acc) ==
    LET id == ids[i]
        reqs == Append(acc.reqs, ItemRequest(id))
    IN IF i \in fails
       THEN [acc EXCEPT !.reqs = reqs, !.failed = @ \cup {i}]
       ELSE IF ~Keep(t, Item(id))
       THEN [acc EXCEPT !.reqs = reqs]
       ELSE [acc EXCEPT !.reqs = reqs,
                        !.built = Append(@, MakeStory(Item(id), t)),
                        !.src = Append(@, id)]

\* Mutant: the first failed item request ends the loop.
RECURSIVE LoopBreakOnError(_, _, _, _, _)
LoopBreakOnError(t, ids, fails, i, acc) ==
    IF i > Len(ids) \/ acc.failed # {} THEN acc
    ELSE LoopBreakOnError(t, ids, fails, i + 1,
                          LoopBody(t, ids, fails, i, acc))

\* The range loop from position i on.
RECURSIVE Loop(_, _, _, _, _)
Loop(t, ids, fails, i, acc) ==
    IF i > Len(ids) THEN acc
    ELSE Loop(t, ids, fails, i + 1, LoopBody(t, ids, fails, i, acc))

\* The positions of ids whose item request can fail.
FlakyPositions(ids) == {i \in 1..Len(ids) : ids[i] <= MaxFlaky}

\* The whole range loop over storyIDs.  The item requests touch neither
\* the cache nor the clock, so the loop is one step; which of the flaky
\* item requests fail is the upstream's choice.
FetchItems(p) ==
    /\ pc[p] = "items"
    /\ \E fails \in SUBSET FlakyPositions(storyIDs[p]) :
          LET end == Loop(storyType[p], storyIDs[p], fails, 1, LoopStart)
          IN /\ built' = [built EXCEPT ![p] = end.built]
             /\ srcIDs' = [srcIDs EXCEPT ![p] = end.src]
             /\ failed' = [failed EXCEPT ![p] = end.failed]
             /\ reqLog' = [reqLog EXCEPT ![p] = @ \o end.reqs]
    /\ pc' = [pc EXCEPT ![p] = "set_lock"]
    /\ UNCHANGED <<cacheVars, lockVars, now, storyType, found, cached,
                   storyIDs, result, err, writes, listed, lookupAt, stampAt,
                   before, lastMiss, served>>
    /\ UNCHANGED tagVars

\* The calls in progress for the story type of p's call, p's included: the
\* calls during which a write of p's set happens.
Sharing(p) ==
    {q \in Procs : pc[q] # "idle" /\ storyType[q] = storyType[p]}

\* Mutant: the write lock is taken without waiting for the readers.
SetLockIgnoresReaders(p) ==
    /\ pc[p] = "set_lock"
    /\ wlocked = 0
    /\ wlocked' = p
    /\ pc' = [pc EXCEPT ![p] = "set_st"]
    /\ UNCHANGED <<cacheVars, rlocked, now, localVars, histVars, tagVars>>

\* --------------------------------------------------------------- cache.set
\* sc.mutex.Lock(): waits while any reader or writer holds the mutex.
SetLock(p) ==
    /\ pc[p] = "set_lock"
    /\ wlocked = 0
    /\ rlocked = {}
    /\ wlocked' = p
    /\ pc' = [pc EXCEPT ![p] = "set_st"]
    /\ UNCHANGED <<cacheVars, rlocked, now, localVars, histVars>>
    /\ UNCHANGED tagVars

\* Mutant: an empty result is not stored.
SetWriteStoriesSkipEmpty(p) ==
    /\ pc[p] = "set_st"
    /\ wlocked = p
    /\ stories' = IF built[p] = <<>> THEN stories
                  ELSE MapSet(stories, storyType[p], built[p])
    /\ pc' = [pc EXCEPT ![p] = "set_ts"]
    /\ UNCHANGED <<lastUpdate, lockVars, now, localVars, histVars>>
    /\ storiesBy' = IF built[p] = <<>> THEN storiesBy
                     ELSE MapSet(storiesBy, storyType[p], p)
    /\ touched' = IF built[p] = <<>> THEN touched
                   ELSE touched \cup Sharing(p)
    /\ UNCHANGED <<routeParam, lastUpdateBy, readBy, budget, late>>

\* Mutant: set keeps the list of an entry that is not expired (the first
\* of several refreshes wins).
SetWriteStoriesFirstWins(p) ==
    /\ pc[p] = "set_st"
    /\ wlocked = p
    /\ LET t == storyType[p]
           keep == /\ t \in DOMAIN lastUpdate
                   /\ t \in DOMAIN stories
                   /\ ~Expired(lastUpdate[t], now)
       IN /\ stories' = IF keep THEN stories
                         ELSE MapSet(stories, t, built[p])
          /\ storiesBy' = IF keep THEN storiesBy
                           ELSE MapSet(storiesBy, t, p)
          /\ touched' = IF keep THEN touched ELSE touched \cup Sharing(p)
    /\ pc' = [pc EXCEPT ![p] = "set_ts"]
    /\ UNCHANGED <<lastUpdate, lockVars, now, localVars, histVars>>
    /\ UNCHANGED <<routeParam, lastUpdateBy, readBy, budget, late>>

\* sc.stories[storyType] = stories
SetWriteStories(p) ==
    /\ pc[p] = "set_st"
    /\ wlocked = p
    /\ stories' = MapSet(stories, storyType[p], built[p])
    /\ pc' = [pc EXCEPT ![p] = "set_ts"]
    /\ UNCHANGED <<lastUpdate, lockVars, now, localVars, histVars>>
    /\ storiesBy' = MapSet(storiesBy, storyType[p], p)
    /\ touched' = touched \cup Sharing(p)
    /\ UNCHANGED <<routeParam, lastUpdateBy, readBy, budget, late>>

\* Mutant: set returns without releasing the write lock.
SetWriteLastUpdateNoUnlock(p) ==
    /\ pc[p] = "set_ts"
    /\ wlocked = p
    /\ lastUpdate' = MapSet(lastUpdate, storyType[p], now)
    /\ stampAt' = [stampAt EXCEPT ![p] = now]
    /\ result' = [result EXCEPT ![p] = built[p]]
    /\ pc' = [pc EXCEPT ![p] = "respond"]
    /\ UNCHANGED <<stories, lockVars, now, storyType, found, cached,
                   storyIDs, built, err, writes, listed, reqLog, srcIDs,
                   failed, lookupAt, before, lastMiss, served>>
    /\ lastUpdateBy' = MapSet(lastUpdateBy, storyType[p], p)
    /\ touched' = touched \cup Sharing(p)
    /\ UNCHANGED <<routeParam, storiesBy, readBy, budget, late>>

\* sc.lastUpdate[storyType] = time.Now(); deferred Unlock; fetchStories
\* returns (stories, nil).
SetWriteLastUpdate(p) ==
    /\ pc[p] = "set_ts"
    /\ wlocked = p
    /\ lastUpdate' = MapSet(lastUpdate, storyType[p], now)
    /\ stampAt' = [stampAt EXCEPT ![p] = now]
    /\ wlocked' = 0
    /\ result' = [result EXCEPT ![p] = built[p]]
    /\ pc' = [pc EXCEPT ![p] = "respond"]
    /\ UNCHANGED <<stories, rlocked, now, storyType, found, cached, storyIDs,
                   built, err, writes, listed, reqLog, srcIDs, failed,
                   lookupAt, before, lastMiss, served>>
    /\ lastUpdateBy' = MapSet(lastUpdateBy, storyType[p], p)
    /\ touched' = touched \cup Sharing(p)
    /\ UNCHANGED <<routeParam, storiesBy, readBy, budget, late>>

\* -------------------------------------------------------- getStories, end
\* The c.JSON calls of the handler for fetchStories' return values.
ErrorBody(e) == [kind |-> "error", stories |-> <<>>, error |-> e]
StoriesBody(s) == [kind |-> "stories", stories |-> s, error |-> <<>>]

\* Mutant: the error branch does not return, so the success write follows.
RespondNoReturn(s, e) ==
    (IF e # <<>>
     THEN <<[status |-> StatusInternalServerError, body |-> ErrorBody(e)]>>
     ELSE <<>>)
        \o <<[status |-> StatusOK, body |-> StoriesBody(s)]>>

Respond(s, e) ==
    IF e # <<>>
    THEN <<[status |-> StatusInternalServerError, body |-> ErrorBody(e)]>>
    ELSE <<[status |-> StatusOK, body |-> StoriesBody(s)]>>

HandlerRespond(p) ==
    /\ pc[p] = "respond"
    /\ writes' = [writes EXCEPT ![p] = Respond(result[p], err[p])]
    /\ pc' = [pc EXCEPT ![p] = "done"]
    /\ LET t == storyType[p] IN
       IF t \in StoryTypes /\ err[p] = <<>> /\ ~found[p]
       THEN lastMiss' = [lastMiss EXCEPT
                           ![t] = [set |-> TRUE, result |-> result[p],
                                   at |-> stampAt[p]]]
       ELSE UNCHANGED lastMiss
    /\ UNCHANGED <<cacheVars, lockVars, now, storyType, found, cached,
                   storyIDs, built, result, err, listed, reqLog, srcIDs,
                   failed, lookupAt, stampAt, before, served>>
    /\ UNCHANGED tagVars

\* The request is over; the worker's locals go out of scope.
HandlerReturn(p) ==
    /\ pc[p] = "done"
    /\ pc' = [pc EXCEPT ![p] = "idle"]
    /\ storyType' = [storyType EXCEPT ![p] = ""]
    /\ found' = [found EXCEPT ![p] = FALSE]
    /\ cached' = [cached EXCEPT ![p] = <<>>]
    /\ storyIDs' = [storyIDs EXCEPT ![p] = <<>>]
    /\ built' = [built EXCEPT ![p] = <<>>]
    /\ result' = [result EXCEPT ![p] = <<>>]
    /\ err' = [err EXCEPT ![p] = <<>>]
    /\ writes' = [writes EXCEPT ![p] = <<>>]
    /\ listed' = [listed EXCEPT ![p] = <<>>]
    /\ reqLog' = [reqLog EXCEPT ![p] = <<>>]
    /\ srcIDs' = [srcIDs EXCEPT ![p] = <<>>]
    /\ failed' = [failed EXCEPT ![p] = {}]
    /\ lookupAt' = [lookupAt EXCEPT ![p] = -1]
    /\ stampAt' = [stampAt EXCEPT ![p] = -1]
    /\ before' = [before EXCEPT ![p] = <<EmptyMap, EmptyMap>>]
    /\ UNCHANGED <<cacheVars, lockVars, now, lastMiss, served>>
    /\ routeParam' = [routeParam EXCEPT ![p] = ""]
    /\ readBy' = [readBy EXCEPT ![p] = <<0, 0>>]
    /\ touched' = touched \ {p}
    /\ late' = late \ {p}
    /\ UNCHANGED <<storiesBy, lastUpdateBy, budget>>

\* ----------------------------------------------------------- specification
Step(p) ==
    \/ \E param \in Params : HandlerEnter(p, param)
    \/ GetRLock(p)
    \/ GetCheckFresh(p)
    \/ GetReadStories(p)
    \/ FetchAfterGet(p)
    \/ FetchListing(p)
    \/ FetchItems(p)
    \/ SetLock(p)
    \/ SetWriteStories(p)
    \/ SetWriteLastUpdate(p)
    \/ HandlerRespond(p)
    \/ HandlerReturn(p)

\* One request at a time: worker 1 serves every request.
Next == Tick \/ \E p \in SeqProcs : Step(p)

Spec == Init /\ [][Next]_vars

\* Concurrent requests: every worker serves requests, as the HTTP server
\* runs each handler on its own goroutine.  To keep the interleavings
\* countable the requests are for top, the upstream serves the one listing
\* <<2, 1>> (or fails), only the first of its item requests may fail, one
\* more request is served, and a burst of overlapping requests is over
\* within one unit of the clock: time passes while no request is running,
\* and then by more than cacheExpiration.
ConcParams == {"top"}
ConcListings == {<<2, 1>>}

ConcInputs ==
    \A p \in Procs :
        /\ routeParam[p] \in ConcParams \cup {""}
        /\ pc[p] # "idle" => routeParam[p] \in ConcParams
        /\ pc[p] \in {"items", "set_lock", "set_st", "set_ts"}
           => listed[p] \in ConcListings
        /\ failed[p] \subseteq {1}

InitConc == Start /\ budget = MaxRequests + 1

AllIdle == \A p \in Procs : pc[p] = "idle"

TickIdle == AllIdle /\ Tick /\ now' - now > cacheExpiration

NextConc ==
    \/ TickIdle
    \/ \E p \in Procs : Step(p) /\ ConcInputs'

SpecConc == InitConc /\ [][NextConc]_vars

\* Fair scheduling: a handler that has started and can take a step does not
\* wait forever; this includes the upstream answering every request.  No
\* request is ever obliged to arrive.  The requests of this specification
\* all fall within one unit of the clock, and the upstream answers every
\* item request with an item.
BurstInputs == ConcInputs /\ \A p \in Procs : failed[p] = {}

Proceed(p) == pc[p] # "idle" /\ Step(p) /\ BurstInputs'

FairConc == \A p \in Procs : WF_vars(Proceed(p))

NextBurst == \E p \in Procs : Step(p) /\ BurstInputs'

SpecConcFair == Init /\ [][NextBurst]_vars /\ FairConc

\* ------------------------------------------------------------- properties
\* fetchStories has returned to the handler: result and err are set.
Returned(p) == pc[p] = "respond"

\* The ids of the item requests in a request log, in order.
ItemIDs(log) ==
    LET items == SelectSeq(log, LAMBDA r : r.kind = "item")
    IN [i \in 1..Len(items) |-> items[i].id]

\* a is a subsequence of b (same relative order, elements possibly left out).
RECURSIVE IsSubseq(_, _)
IsSubseq(a, b) ==
    IF a = <<>> THEN TRUE
    ELSE IF b = <<>> THEN FALSE
    ELSE IF Head(a) = Head(b) THEN IsSubseq(Tail(a), Tail(b))
    ELSE IsSubseq(a, Tail(b))

\* ids without the positions in drop.
RECURSIVE DropPositions(_, _)
DropPositions(ids, drop) ==
    IF ids = <<>> THEN <<>>
    ELSE LET n == Len(ids)
             rest == DropPositions(SubSeq(ids, 1, n - 1), drop)
         IN IF n \in drop THEN rest ELSE Append(rest, ids[n])

\* C1: after a cache-miss fetchStories(T) has returned successfully, a
\* fetchStories(T) whose lookup happens no later than cacheExpiration after
\* that refresh returns the very sequence the first call returned and makes
\* no upstream request, neither listing nor item.
C1_RepeatServedFromCache ==
    \A p \in Procs :
        LET t == storyType[p] IN
        (/\ Returned(p)
         /\ t \in StoryTypes
         /\ lastMiss[t].set
         /\ lookupAt[p] >= 0
         /\ lookupAt[p] - lastMiss[t].at <= cacheExpiration)
        => /\ err[p] = <<>>
           /\ result[p] = lastMiss[t].result
           /\ reqLog[p] = <<>>

\* C1 witness: a second call for a type returns a non-empty cached list.
C1_Witness ==
    \E p \in Procs :
        /\ Returned(p)
        /\ storyType[p] \in StoryTypes
        /\ lastMiss[storyType[p]].set
        /\ found[p]
        /\ Len(result[p]) > 0
        /\ reqLog[p] = <<>>

\* C2: in every reachable state fetchStories(v) with v outside
\* {top, show, ask} misses the cache, fails with "invalid story type: v",
\* makes no upstream request and leaves both cache maps as they were; no
\* cache key outside the three types ever exists.
C2_InvalidTypeRejected ==
    /\ DOMAIN stories \subseteq StoryTypes
    /\ DOMAIN lastUpdate \subseteq StoryTypes
    /\ \A p \in Procs :
          (storyType[p] \notin StoryTypes /\ pc[p] # "idle")
          => /\ pc[p] \in {"get_rlock", "get_ts", "got", "respond", "done"}
             /\ ~found[p]
             /\ reqLog[p] = <<>>
             /\ <<stories, lastUpdate>> = before[p]
             /\ pc[p] \in {"respond", "done"}
                => /\ err[p] = <<"invalid story type: ", storyType[p]>>
                   /\ result[p] = <<>>

\* C2 witness: an invalid type is rejected while the cache holds entries.
C2_Witness ==
    \E p \in Procs :
        /\ Returned(p)
        /\ storyType[p] = "invalid"
        /\ err[p] # <<>>
        /\ DOMAIN stories # {}

\* C3: when the listing request fails, fetchStories returns that error
\* after the listing request alone (no item request), both cache maps are
\* exactly as they were when the call began, and the entry of the type is
\* absent or expired, so that the next lookup for the type misses again.
C3_ListingFailureLeavesCache ==
    \A p \in Procs :
        LET t == storyType[p] IN
        (Returned(p) /\ err[p] \in ListingErrors)
        => /\ reqLog[p] = <<[kind |-> "listing", endpoint |-> Endpoint(t),
                             id |-> 0]>>
           /\ result[p] = <<>>
           /\ <<stories, lastUpdate>> = before[p]
           /\ \/ t \notin DOMAIN lastUpdate
              \/ now - lastUpdate[t] > cacheExpiration

\* C3 witness: a listing failure on a type whose stale entry stays stored.
C3_Witness ==
    \E p \in Procs :
        /\ Returned(p)
        /\ err[p] \in ListingErrors
        /\ storyType[p] \in DOMAIN lastUpdate
        /\ Len(stories[storyType[p]]) > 0

\* C4: cache.get answers (stories, true) exactly when the key has an entry
\* whose age at the lookup is at most cacheExpiration (an age of exactly
\* cacheExpiration is fresh) and then hands out the stored list; otherwise
\* it answers (nil, false), and a miss on a valid key is followed by an
\* upstream listing request.
C4_GetFreshIffWithinTTL ==
    \A p \in Procs :
        LET t == storyType[p] IN
        /\ pc[p] = "got"
           => /\ found[p] <=> /\ t \in DOMAIN lastUpdate
                              /\ lookupAt[p] - lastUpdate[t] <= cacheExpiration
              /\ cached[p] = IF found[p] THEN stories[t] ELSE <<>>
        /\ (pc[p] \in {"items", "set_lock", "set_st", "set_ts", "respond"}
            /\ t \in StoryTypes /\ ~found[p])
           => /\ reqLog[p] # <<>>
              /\ reqLog[p][1].kind = "listing"

\* C4 witness: a hit on an entry that is exactly cacheExpiration old.
C4_Witness ==
    \E p \in Procs :
        /\ pc[p] = "got"
        /\ found[p]
        /\ lookupAt[p] - lastUpdate[storyType[p]] = cacheExpiration

\* Every Story of list s is tagged t and passes the filter of type t.
TaggedAndFiltered(s, t) ==
    \A i \in 1..Len(s) :
        /\ s[i].Type = t
        /\ t = "show" => HasPrefix(s[i].Title, ShowPrefix)
        /\ t = "ask" => HasPrefix(s[i].Title, AskPrefix)

\* C5: every Story fetchStories(T) returns, built or cached, has Type = T;
\* in a show result every title begins with "Show HN:", in an ask result
\* with "Ask HN:"; every cache entry holds only such stories for its key.
C5_TypeTagAndPrefix ==
    /\ \A p \in Procs :
          (Returned(p) /\ err[p] = <<>>)
          => TaggedAndFiltered(result[p], storyType[p])
    /\ \A k \in DOMAIN stories : TaggedAndFiltered(stories[k], k)

\* C5 witness: a show result served from the cache, built from an upstream
\* item whose own type field is not "show".
C5_Witness ==
    \E p \in Procs :
        /\ Returned(p)
        /\ found[p]
        /\ storyType[p] = "show"
        /\ Len(result[p]) > 0
        /\ \A i \in 1..Len(result[p]) : Item(result[p][i].ID).Type # "show"

\* C6: no returned sequence and no cached list has more than maxStories
\* entries, and the item requests of a call are for exactly the first
\* maxStories ids of the listing (all of them when it is shorter).
C6_AtMostMaxStories ==
    /\ \A k \in DOMAIN stories : Len(stories[k]) <= maxStories
    /\ \A p \in Procs :
          /\ Len(result[p]) <= maxStories
          /\ Len(built[p]) <= maxStories
          /\ pc[p] \in {"set_lock", "set_st", "set_ts", "respond", "done"}
             => ItemIDs(reqLog[p]) =
                  SubSeq(listed[p], 1,
                         IF Len(listed[p]) < maxStories THEN Len(listed[p])
                         ELSE maxStories)

\* C6 witness: a listing longer than maxStories yields exactly maxStories.
C6_Witness ==
    \E p \in Procs :
        /\ Returned(p)
        /\ Len(listed[p]) > maxStories
        /\ Len(result[p]) = maxStories

\* C7: the result of a cache miss follows the truncated listing: the ids
\* behind its stories are a subsequence of the listing in listing order,
\* each Story carries the id of the item fetched for it, and for top the
\* result is exactly the successfully fetched items, none filtered out.
C7_ListingOrderKept ==
    \A p \in Procs :
        (Returned(p) /\ ~found[p] /\ err[p] = <<>>)
        => /\ Len(srcIDs[p]) = Len(result[p])
           /\ IsSubseq(srcIDs[p], storyIDs[p])
           /\ \A i \in 1..Len(result[p]) :
                 result[p][i].ID = Item(srcIDs[p][i]).ID
           /\ storyType[p] = "top"
              => srcIDs[p] = DropPositions(storyIDs[p], failed[p])

\* C7 witness: a top result over a listing that is not in id order, with
\* one item request failed and the stories around it kept in order.
C7_Witness ==
    \E p \in Procs :
        /\ Returned(p)
        /\ ~found[p]
        /\ storyType[p] = "top"
        /\ storyIDs[p] = <<3, 1, 4, 2>>
        /\ srcIDs[p] = <<3, 4, 2>>

\* C8: once the listing request succeeded fetchStories returns no error
\* however many item requests fail; a failed id is not in the result, the
\* result has at most N - k entries for N retained ids and k failures, and
\* every retained id is requested, those after a failure included.
C8_ItemFailuresSkipped ==
    \A p \in Procs :
        (Returned(p) /\ reqLog[p] # <<>> /\ err[p] \notin ListingErrors)
        => /\ err[p] = <<>>
           /\ Len(result[p]) <= Len(storyIDs[p]) - Cardinality(failed[p])
           /\ \A i \in failed[p] :
                 \A j \in 1..Len(srcIDs[p]) : srcIDs[p][j] # storyIDs[p][i]
           /\ ItemIDs(reqLog[p]) = storyIDs[p]

\* C8 witness: both item requests of a two-id listing fail and the call
\* still succeeds.
C8_Witness ==
    \E p \in Procs :
        /\ Returned(p)
        /\ err[p] = <<>>
        /\ Len(storyIDs[p]) >= 2
        /\ Cardinality(failed[p]) = Len(storyIDs[p])

\* C9: a cache miss whose listing succeeded leaves its result stored under
\* its type with the time of the set, an empty result too; and a call for
\* a type whose last refresh returned the empty sequence, looked up within
\* cacheExpiration of it, is a hit that returns the empty sequence without
\* an upstream request.
C9_EmptyResultCached ==
    \A p \in Procs :
        LET t == storyType[p] IN
        /\ (Returned(p) /\ ~found[p] /\ err[p] = <<>>)
           => /\ t \in DOMAIN stories
              /\ t \in DOMAIN lastUpdate
              /\ stories[t] = result[p]
              /\ lastUpdate[t] = stampAt[p]
        /\ (/\ Returned(p)
            /\ t \in StoryTypes
            /\ lastMiss[t].set
            /\ lastMiss[t].result = <<>>
            /\ lookupAt[p] >= 0
            /\ lookupAt[p] - lastMiss[t].at <= cacheExpiration)
           => /\ found[p]
              /\ err[p] = <<>>
              /\ result[p] = <<>>
              /\ reqLog[p] = <<>>

\* C9 witness: a hit that returns a cached empty sequence.
C9_Witness ==
    \E p \in Procs :
        /\ Returned(p)
        /\ found[p]
        /\ result[p] = <<>>
        /\ lastMiss[storyType[p]].set

\* C10: the handler makes exactly one c.JSON call per request: status 200
\* with the sequence fetchStories returned, or status 500 with an error
\* object holding exactly the error's message; 500 exactly when
\* fetchStories returned an error, never stories and an error together; a
\* type outside {top, show, ask} always gets 500 with a message containing
\* "invalid story type".
C10_OneOutcomePerRequest ==
    \A p \in Procs :
        pc[p] = "done"
        => /\ Len(writes[p]) = 1
           /\ LET w == writes[p][1] IN
              /\ \/ /\ w.status = 200
                    /\ w.body.kind = "stories"
                    /\ w.body.stories = result[p]
                    /\ w.body.error = <<>>
                 \/ /\ w.status = 500
                    /\ w.body.kind = "error"
                    /\ w.body.error = err[p]
                    /\ w.body.stories = <<>>
              /\ w.status = 500 <=> err[p] # <<>>
              /\ storyType[p] \notin StoryTypes
                 => /\ w.status = 500
                    /\ \E i \in 1..Len(w.body.error) :
                          w.body.error[i] = "invalid story type: "

\* C10 witness: an invalid type answered with 500 while the cache holds
\* entries.
C10_Witness ==
    \E p \in Procs :
        /\ pc[p] = "done"
        /\ storyType[p] \notin StoryTypes
        /\ writes[p][1].status = 500
        /\ DOMAIN stories # {}

\* C11: a request without a type parameter is answered as a request for
\* "top": it is looked up under the key "top", inside the expiry window of a
\* "top" refresh it returns that refresh's list without an upstream request,
\* on a miss it asks the topstories listing and stores under "top", and the
\* empty string never becomes a cache key.
C11_NoParamIsTop ==
    /\ "" \notin DOMAIN stories
    /\ "" \notin DOMAIN lastUpdate
    /\ \A p \in Procs :
          (routeParam[p] = "" /\ pc[p] # "idle")
          => /\ storyType[p] = "top"
             /\ (reqLog[p] # <<>>
                 => reqLog[p][1].endpoint = "topstories")
             /\ (/\ Returned(p)
                 /\ lastMiss["top"].set
                 /\ lookupAt[p] >= 0
                 /\ lookupAt[p] - lastMiss["top"].at <= cacheExpiration)
                => /\ err[p] = <<>>
                   /\ result[p] = lastMiss["top"].result
                   /\ reqLog[p] = <<>>
             /\ (Returned(p) /\ ~found[p] /\ err[p] = <<>>)
                => /\ stories["top"] = result[p]
                   /\ lastUpdate["top"] = stampAt[p]

\* C11 witness: a request without a parameter is served the non-empty list
\* that a refresh of "top" stored.
C11_Witness ==
    \E p \in Procs :
        /\ Returned(p)
        /\ routeParam[p] = ""
        /\ found[p]
        /\ lastMiss["top"].set
        /\ Len(result[p]) > 0
        /\ result[p] = lastMiss["top"].result

\* The story type's entry was stored when this call started, has not been
\* written since, and is not expired.
SameFreshEntry(p) ==
    LET t == storyType[p] IN
    /\ pc[p] # "idle"
    /\ p \notin touched
    /\ t \in DOMAIN before[p][1]
    /\ t \in DOMAIN before[p][2]
    /\ ~Expired(before[p][2][t], now)

\* C12: while the entry of a type stays fresh and untouched, every one of
\* the overlapping fetchStories calls for that type stays on the cache
\* path: it makes no upstream request, does not write the cache, reads the
\* maps only under the read lock with no writer inside, and returns the
\* stored sequence, so all of them return the same sequence.
C12_ConcurrentHitsAgree ==
    /\ \A p \in Procs :
          SameFreshEntry(p)
          => /\ stories[storyType[p]] = before[p][1][storyType[p]]
             /\ lastUpdate[storyType[p]] = before[p][2][storyType[p]]
             /\ pc[p] \in {"get_rlock", "get_ts", "get_st", "got",
                           "respond", "done"}
             /\ reqLog[p] = <<>>
             /\ stampAt[p] = -1
             /\ (pc[p] \in {"get_ts", "get_st"}
                 => p \in rlocked /\ wlocked = 0)
             /\ (pc[p] \in {"respond", "done"}
                 => /\ found[p]
                    /\ err[p] = <<>>
                    /\ result[p] = stories[storyType[p]])
    /\ \A p, q \in Procs :
          (/\ SameFreshEntry(p) /\ SameFreshEntry(q)
           /\ storyType[p] = storyType[q]
           /\ Returned(p) /\ Returned(q))
          => result[p] = result[q]

\* C12 witness: two overlapping calls for one type have both returned the
\* stored non-empty list.
C12_Witness ==
    \E p, q \in Procs :
        /\ p # q
        /\ SameFreshEntry(p) /\ SameFreshEntry(q)
        /\ storyType[p] = storyType[q]
        /\ Returned(p) /\ Returned(q)
        /\ found[p] /\ found[q]
        /\ Len(result[p]) > 0
        /\ result[p] = result[q]

\* C13: a get that reports a hit read a timestamp and a list written by one
\* and the same set; while it is between its two reads the entry is not
\* written.
C13_NoTornEntry ==
    \A p \in Procs :
        /\ (pc[p] = "get_st"
            => /\ storyType[p] \in DOMAIN stories
               /\ lastUpdateBy[storyType[p]] = readBy[p][1]
               /\ storiesBy[storyType[p]] = readBy[p][1])
        /\ (pc[p] = "got" /\ found[p]
            => /\ readBy[p][1] # 0
               /\ readBy[p][1] = readBy[p][2])

\* C13 witness: a get is between its two reads while another call waits to
\* set the same type.
C13_Witness ==
    \E p, q \in Procs :
        /\ p # q
        /\ pc[p] = "get_st"
        /\ pc[q] = "set_lock"
        /\ storyType[p] = storyType[q]

\* The calls inside the critical section of set, and of get.
InSet == {p \in Procs : pc[p] \in {"set_st", "set_ts"}}
InGet == {p \in Procs : pc[p] \in {"get_ts", "get_st"}}

PassesFilter(t, title) ==
    /\ (t = "show" => HasPrefix(title, ShowPrefix))
    /\ (t = "ask" => HasPrefix(title, AskPrefix))

\* The stories array of a 200 response.
StoriesOf(p) == writes[p][1].body.stories

C16_Original ==
    \A p \in Procs :
        (/\ pc[p] = "done"
         /\ writes[p][1].status = StatusOK
         /\ storyType[p] = "top")
        => \A i \in 1..Len(StoriesOf(p)) :
              /\ StoriesOf(p)[i].ID # 0
              /\ StoriesOf(p)[i].Title # <<>>
              /\ StoriesOf(p)[i].SubmittedBy # ""

\* C17: a cache hit writes nothing: when fetchStories returns from the
\* cache both maps are as they were when the call started, the call has
\* set no timestamp and made no upstream request, and the entry's timestamp
\* is still the one of the refresh that stored it, so hits do not extend
\* its life and a get later than cacheExpiration after the refresh misses
\* however often the entry was read; cache.get itself never writes.
C17_HitWritesNothing ==
    \A p \in Procs :
        /\ (pc[p] \in {"get_rlock", "get_ts", "get_st", "got"}
            => <<stories, lastUpdate>> = before[p])
        /\ ((pc[p] \in {"respond", "done"} /\ found[p])
            => /\ <<stories, lastUpdate>> = before[p]
               /\ stampAt[p] = -1
               /\ reqLog[p] = <<>>
               /\ lastMiss[storyType[p]].set
               /\ lastUpdate[storyType[p]] = lastMiss[storyType[p]].at
               /\ lookupAt[p] - lastMiss[storyType[p]].at
                     <= cacheExpiration)
        /\ ((/\ pc[p] = "got"
             /\ storyType[p] \in StoryTypes
             /\ lastMiss[storyType[p]].set
             /\ lookupAt[p] - lastMiss[storyType[p]].at > cacheExpiration)
            => ~found[p])

\* C17 witness: a hit at the last moment of the expiry window has
\* returned, and the entry still carries the timestamp of its refresh.
C17_Witness ==
    \E p \in Procs :
        /\ Returned(p)
        /\ found[p]
        /\ lookupAt[p] - lastUpdate[storyType[p]] = cacheExpiration
        /\ <<stories, lastUpdate>> = before[p]

\* C18: when a refresh has returned, the type's entry is exactly the list
\* it built and the timestamp it took, whatever was stored before, and
\* every other key of both maps is as it was when the call started; a get
\* of the type inside the expiry window of that timestamp hits and yields
\* that list.
C18_SetReplacesEntryOnly ==
    \A p \in Procs :
        LET t == storyType[p] IN
        /\ ((Returned(p) /\ ~found[p] /\ err[p] = <<>>)
            => /\ stories[t] = built[p]
               /\ result[p] = built[p]
               /\ lastUpdate[t] = stampAt[p]
               /\ stampAt[p] >= 0
               /\ DOMAIN stories = DOMAIN before[p][1] \cup {t}
               /\ DOMAIN lastUpdate = DOMAIN before[p][2] \cup {t}
               /\ \A k \in DOMAIN before[p][1] \ {t} :
                     stories[k] = before[p][1][k]
               /\ \A k \in DOMAIN before[p][2] \ {t} :
                     lastUpdate[k] = before[p][2][k])
        /\ ((/\ pc[p] = "got"
             /\ t \in StoryTypes
             /\ lastMiss[t].set
             /\ lookupAt[p] >= 0
             /\ lookupAt[p] - lastMiss[t].at <= cacheExpiration)
            => /\ found[p]
               /\ cached[p] = lastMiss[t].result)

\* C18 witness: a refresh has replaced a longer stored list of its type by
\* a shorter one.
C18_Witness ==
    \E p \in Procs :
        LET t == storyType[p] IN
        /\ Returned(p) /\ ~found[p] /\ err[p] = <<>>
        /\ t \in DOMAIN before[p][1]
        /\ Len(before[p][1][t]) > Len(stories[t])
        /\ stories[t] = built[p]

\* C19: outside the critical section of set both maps have the same keys;
\* the keys are always among top, show and ask, so the cache holds at most
\* three entries, whatever type strings the requests carry.
C19_KeySetsAgree ==
    /\ (wlocked = 0 => DOMAIN stories = DOMAIN lastUpdate)
    /\ DOMAIN lastUpdate \subseteq DOMAIN stories
    /\ DOMAIN stories \subseteq StoryTypes
    /\ Cardinality(DOMAIN stories) <= Cardinality(StoryTypes)
    /\ Cardinality(DOMAIN lastUpdate) <= Cardinality(StoryTypes)
    /\ \A p \in Procs : storyType[p] \notin StoryTypes => stampAt[p] = -1

\* C19 witness: a request with a type outside the three has been answered
\* while the cache holds an entry and no set is in progress.
C19_Witness ==
    \E p \in Procs :
        /\ pc[p] = "done"
        /\ storyType[p] \notin StoryTypes
        /\ wlocked = 0
        /\ DOMAIN stories # {}
        /\ DOMAIN stories = DOMAIN lastUpdate

\* C20: no step that advances the clock changes either map; no step removes
\* a key from either map; a stored list or timestamp changes only in the
\* write of a set for that key by a call that fetched successfully; and a
\* key's timestamp never decreases.
C20_TimeNeverChangesCache ==
    [][/\ (now' # now => (stories' = stories /\ lastUpdate' = lastUpdate))
       /\ DOMAIN stories \subseteq DOMAIN stories'
       /\ DOMAIN lastUpdate \subseteq DOMAIN lastUpdate'
       /\ \A k \in DOMAIN stories :
             stories'[k] # stories[k]
             => \E p \in Procs :
                   /\ pc[p] = "set_st" /\ wlocked = p
                   /\ storyType[p] = k /\ err[p] = <<>>
       /\ \A k \in DOMAIN lastUpdate :
             /\ lastUpdate'[k] >= lastUpdate[k]
             /\ lastUpdate'[k] # lastUpdate[k]
                => \E p \in Procs :
                      /\ pc[p] = "set_ts" /\ wlocked = p
                      /\ storyType[p] = k /\ err[p] = <<>>]_vars

\* C20 witness: an expired entry is still stored, list and timestamp, with
\* no request running.
C20_Witness ==
    \E k \in DOMAIN lastUpdate :
        /\ Expired(lastUpdate[k], now)
        /\ k \in DOMAIN stories
        /\ Len(stories[k]) > 0
        /\ \A p \in Procs : pc[p] = "idle"

\* The smaller of two numbers.
Min(a, b) == IF a < b THEN a ELSE b

\* C21: the upstream requests of one cache-miss fetchStories call form one
\* sequence: the listing request first and only once, then one item request
\* per retained id in listing order, 1 + min(N, maxStories) requests at
\* most for a listing of N ids; no item request is made before the listing
\* is in, and the call writes the cache only once every item request has
\* been made and answered.
C21_UpstreamSequential ==
    \A p \in Procs :
        LET log == reqLog[p] IN
        /\ (log # <<>>
            => /\ log[1] = ListingRequest(storyType[p])
               /\ \A i \in 2..Len(log) : log[i].kind = "item")
        /\ Len(log) <= 1 + maxStories
        /\ (pc[p] = "listing" => log = <<>>)
        /\ (pc[p] = "items" => Len(log) = 1)
        /\ (pc[p] \in {"get_rlock", "get_ts", "get_st", "got", "listing",
                       "items", "set_lock"}
            => /\ stampAt[p] = -1
               /\ <<stories, lastUpdate>> = before[p])
        /\ ((\/ pc[p] \in {"set_lock", "set_st", "set_ts"}
             \/ (pc[p] \in {"respond", "done"} /\ ~found[p]
                 /\ err[p] = <<>>))
            => /\ storyIDs[p]
                    = SubSeq(listed[p], 1, Min(Len(listed[p]), maxStories))
               /\ ItemIDs(log) = storyIDs[p]
               /\ Len(log) = 1 + Min(Len(listed[p]), maxStories))

\* C21 witness: a refresh of a listing longer than maxStories has returned
\* after 1 + maxStories requests, one of which failed.
C21_Witness ==
    \E p \in Procs :
        /\ Returned(p) /\ ~found[p] /\ err[p] = <<>>
        /\ Len(listed[p]) > maxStories
        /\ Len(reqLog[p]) = 1 + maxStories
        /\ failed[p] # {}
        /\ stampAt[p] >= 0

\* The worker holds the cache mutex, for reading or for writing.
HoldsLock(p) == p \in rlocked \/ wlocked = p

RefreshReturned(p) ==
    pc[p] \in {"respond", "done"} /\ ~found[p] /\ err[p] = <<>>

\* C23: every call that saw a miss makes its own listing and item requests
\* and its own set, also when another call writes the entry meanwhile, and
\* returns the sequence it built; with no set in progress the entry is the
\* list and timestamp of the call whose set came last.
C23_RefreshesNotCoalesced ==
    /\ \A t \in DOMAIN stories :
          wlocked = 0 => storiesBy[t] = lastUpdateBy[t]
    /\ \A p \in Procs :
          LET t == storyType[p] IN
          /\ (pc[p] \in {"listing", "items", "set_lock"}
              => stampAt[p] = -1)
          /\ (pc[p] \in {"set_lock", "set_st", "set_ts"} \/ RefreshReturned(p))
             => /\ Len(reqLog[p]) = 1 + Len(storyIDs[p])
                /\ reqLog[p][1] = ListingRequest(t)
                /\ ItemIDs(reqLog[p]) = storyIDs[p]
          /\ RefreshReturned(p)
             => /\ stampAt[p] >= 0
                /\ result[p] = built[p]
          /\ (RefreshReturned(p) /\ wlocked = 0 /\ lastUpdateBy[t] = p)
             => /\ stories[t] = built[p]
                /\ lastUpdate[t] = stampAt[p]

\* C23 witness: two calls refreshed one type and returned different lists;
\* the entry is that of the call that set last, although that call got its
\* listing before the other one did.
C23_Witness ==
    \E p, q \in Procs :
        /\ p # q
        /\ storyType[p] = storyType[q]
        /\ Returned(p) /\ RefreshReturned(p)
        /\ Returned(q) /\ RefreshReturned(q)
        /\ result[p] # result[q]
        /\ wlocked = 0
        /\ lastUpdateBy[storyType[q]] = q
        /\ stories[storyType[q]] = result[q]
        /\ p \in late
        /\ q \notin late

====
